---- MODULE Spec2Model ----
(***************************************************************************)
(* Model of the Silpo product scraper: the retrying fetcher                *)
(* (src/src/scraper.py) and the layered extractor with its field           *)
(* normalizers (src/src/parser.py).                                        *)
(*                                                                         *)
(* Text is modelled character by character as a sequence of one-character  *)
(* strings.  The module is ASCII, so the Cyrillic letters and the hryvnia  *)
(* sign of the patterns are written with these stand-ins:                  *)
(*     "$" = U+20B4 hryvnia sign      "g" = ge   "r" = er   "n" = en       *)
(*     "l" = el    "m" = em    "k" = ka    "s" = sha    "t" = te           *)
(*     "G" "L" "M" "K" "S" "T" = the capital forms of the same letters     *)
(* so "grn" is the currency word, "ml" millilitres, "st" pieces, "kg"      *)
(* kilograms.  "a" "b" "c" "d" "e" are further letters, "<" is a markup    *)
(* character that belongs to no character class of any pattern.            *)
(*                                                                         *)
(* Amounts are kept exact: a parsed number is a pair num/den (den a power  *)
(* of ten) and money is held in hundredths (kopecks).                      *)
(***************************************************************************)
EXTENDS Integers, Sequences, FiniteSets, TLC

VARIABLES
    \* ---- Scraper.fetch_page (scraper.py 59-125) ----
    fetch_pc,       \* "idle" | "loop" | "returned" | "raised"
    max_attempts,   \* the max_attempts argument
    attempt,        \* loop variable: number of the attempt last started
    last_error,     \* reason of the last failed attempt
    fetch_ret,      \* return value: None or response.text
    responses,      \* history: outcome of every request issued, in order
    sleeps,         \* history: every time.sleep(delay) made, with the attempt it followed
    \* ---- the element parser and the pattern miner applied to one text ----
    p_pc,           \* "input" | "element" | "regex": what was applied to p_text
    p_text,         \* element.get_text(), or the markup given to _extract_with_regex
    p_parent,       \* element.parent.get_text(), None without a parent
    p_out,          \* the records produced
    \* ---- Parser.extract_products (parser.py 23-112) ----
    ex_pc,          \* "idle" | "selectors" | "regex" | "returned" | "raised"
    HAS_BS4,        \* module flag set at import (lines 7-12)
    html,           \* the html argument
    sel,            \* number of the selector the loop of line 93 is at
    products,       \* the products list of _extract_with_beautifulsoup
    ex_ret,         \* return value of extract_products
    strategies,     \* history: the strategies entered, in order
    evaluated,      \* history: one entry per selector evaluated
    parsed_elements,\* history: the elements of the last selector given to _parse_element
    bs_result,      \* history: what the structured strategy produced
    regex_result,   \* history: what the pattern miner produced
    \* ---- Parser._extract_title applied to one text, then to its own result ----
    t_pc,           \* "idle" | "input" | "once" | "twice"
    t_text,         \* the text given to _extract_title
    t_title,        \* _extract_title(t_text)
    t_again,        \* _extract_title(t_title)
    \* ---- Scraper.fetch_page_selenium and Scraper.close (scraper.py 127-186) ----
    r_pc,           \* "idle" | "fallback" | "returned" | "raised" | "closed"
    r_outcome,      \* what the scripted browser did in the try body
    r_ret,          \* return value of fetch_page_selenium
    driver,         \* self.driver (line 56)
    contexts,       \* number of browsing contexts created and not yet quit
    session_open,   \* self.session has not been closed
    \* ---- SilpoScraper.run (main.py 36-187) ----
    run_pc,         \* "idle" | "start" | "connectivity" | "discover" | "pages" | "save" | "done" | "exited" | "crashed"
    MAX_PAGES,      \* config.MAX_PAGES
    max_page,       \* what find_last_page returned, line 56 (0 before)
    page_urls,      \* the list of line 61; a URL is held as its page number
    page_index,     \* the loop variable i of line 68: pages already iterated
    all_products,   \* the list of line 66; a record is held as its page_number
    data_file,      \* the rows Storage.save_products appended
    log,            \* the rows handed to Storage.append_log
    delays,         \* history: every time.sleep of line 116, with the page it followed
    calls,          \* history: every call to the fetcher and to the parser
    scraper_closed, \* self.scraper.close() has run
    exit_status     \* None while running, else the status the process ends with

fetch_vars == <<fetch_pc, max_attempts, attempt, last_error, fetch_ret, responses, sleeps>>
parse_vars == <<p_pc, p_text, p_parent, p_out>>

extract_vars == <<ex_pc, HAS_BS4, html, sel, products, ex_ret, strategies, evaluated,
                  parsed_elements, bs_result, regex_result>>

title_vars == <<t_pc, t_text, t_title, t_again>>

render_vars == <<r_pc, r_outcome, r_ret, driver, contexts, session_open>>

run_vars == <<run_pc, MAX_PAGES, max_page, page_urls, page_index, all_products, data_file, log,
              delays, calls, scraper_closed, exit_status>>

vars == <<fetch_vars, parse_vars, extract_vars, title_vars, render_vars, run_vars>>

(***************************************************************************)
(* Bounds                                                                  *)
(***************************************************************************)
MaxAttemptsBound == 3
MaxChunks == 3
MaxElements == 4
MaxTitleChunks == 3
MaxPagesBound == 3
MaxProducts == 2
MaxLimitBound == 12

(***************************************************************************)
(* Program constants                                                       *)
(***************************************************************************)
RETRY_DELAY == 2
MIN_BODY_LEN == 1000
HEAD_LEN == 500
HTTP_ERROR_FLOOR == 400

None == [kind |-> "None"]

(***************************************************************************)
(* Scraper.fetch_page                                                      *)
(***************************************************************************)
\* response.text, reduced to what fetch_page looks at: its length and which
\* markers occur in its first HEAD_LEN characters.
Text(len, doctype, htmltag) ==
    [kind |-> "text", len |-> len, doctype |-> doctype, htmltag |-> htmltag]

Response(status, text) == [kind |-> "response", status |-> status, text |-> text]

GoodText == Text(2000, TRUE, FALSE)

\* What one session.get can produce: a response, or one of the exceptions of
\* the requests library (Timeout, ConnectionError, any other Exception such as
\* TooManyRedirects).
Outcomes ==
       { Response(s, GoodText) : s \in {200, 399, 400, 403, 404, 429, 500} }
  \cup { Response(200, Text(n, d, h)) : n \in {0, 999, 1000}, d \in BOOLEAN, h \in BOOLEAN }
  \cup { Response(404, Text(0, FALSE, FALSE)) }
  \cup { [kind |-> "Timeout"], [kind |-> "ConnectionError"], [kind |-> "RequestException"] }

Err(msg, arg) == [kind |-> "error", msg |-> msg, arg |-> arg]

\* Validate with the generic status test written "> 400": status 400 passes.
Validate_gt400(resp) ==
    IF resp.status = 404 THEN Err("HTTP 404 - Page not found", 0)
    ELSE IF resp.status = 403 THEN Err("HTTP 403 - Access forbidden (site may be blocking us)", 0)
    ELSE IF resp.status = 429 THEN Err("HTTP 429 - Rate limited (too many requests)", 0)
    ELSE IF resp.status > HTTP_ERROR_FLOOR THEN Err("HTTP", resp.status)
    ELSE IF resp.text.len = 0 \/ resp.text.len < MIN_BODY_LEN
         THEN Err("Empty/short response", resp.text.len)
    ELSE IF ~resp.text.doctype /\ ~resp.text.htmltag
         THEN Err("Response doesn't contain valid HTML", 0)
    ELSE None

\* Lines 88-103: the exception the try body raises for a response, or None
\* when the response passes every test.
Validate(resp) ==
    IF resp.status = 404 THEN Err("HTTP 404 - Page not found", 0)
    ELSE IF resp.status = 403 THEN Err("HTTP 403 - Access forbidden (site may be blocking us)", 0)
    ELSE IF resp.status = 429 THEN Err("HTTP 429 - Rate limited (too many requests)", 0)
    ELSE IF resp.status >= HTTP_ERROR_FLOOR THEN Err("HTTP", resp.status)
    ELSE IF resp.text.len = 0 \/ resp.text.len < MIN_BODY_LEN
         THEN Err("Empty/short response", resp.text.len)
    ELSE IF ~resp.text.doctype /\ ~resp.text.htmltag
         THEN Err("Response doesn't contain valid HTML", 0)
    ELSE None

\* Lines 76-106: the try body.  [exc |-> class, err |-> str(error)] when it
\* raises, exc = "none" when it reaches the return.
TryBody(o) ==
    IF o.kind = "Timeout" THEN [exc |-> "Timeout", err |-> Err("timeout", 0)]
    ELSE IF o.kind = "ConnectionError" THEN [exc |-> "ConnectionError", err |-> Err("refused", 0)]
    ELSE IF o.kind = "RequestException" THEN [exc |-> "Exception", err |-> Err("request failed", 0)]
    ELSE IF Validate(o) /= None THEN [exc |-> "Exception", err |-> Validate(o)]
    ELSE [exc |-> "none", err |-> None]

\* Lines 108-116: the except clauses.  The value assigned to last_error, or
\* None when no clause catches the exception and it propagates.
Handler(r) ==
    IF r.exc = "Timeout" THEN Err("Request timeout (15s exceeded)", 0)
    ELSE IF r.exc = "ConnectionError" THEN Err("Connection error", 0)
    ELSE IF r.exc = "Exception" THEN r.err
    ELSE None

\* Line 119: whether the loop sleeps after failed attempt a.
SleepsAfter(a, max) == a < max

\* BackoffDelay without the attempt factor: a constant delay.
BackoffDelay_const(a) == RETRY_DELAY

\* Line 120: the delay after failed attempt a.
BackoffDelay(a) == RETRY_DELAY * a

\* HasNextAttempt for range(1, max_attempts): one attempt short.
HasNextAttempt_short(a, max) == a + 1 < max

\* Line 72: range(1, max_attempts + 1) has a next element after a.
HasNextAttempt(a, max) == a + 1 <= max

FetchIdle ==
    /\ fetch_pc = "idle"
    /\ max_attempts = 0
    /\ attempt = 0
    /\ last_error = None
    /\ fetch_ret = None
    /\ responses = <<>>
    /\ sleeps = <<>>

\* Call fetch_page(url, max): line 70, and the loop is entered.
FetchCall ==
    /\ fetch_pc = "idle"
    /\ \E max \in 1..MaxAttemptsBound : max_attempts' = max
    /\ attempt' = 0
    /\ last_error' = None
    /\ fetch_ret' = None
    /\ responses' = <<>>
    /\ sleeps' = <<>>
    /\ fetch_pc' = "loop"
    /\ UNCHANGED <<parse_vars, extract_vars, title_vars, render_vars, run_vars>>

\* One iteration of the attempt loop, lines 72-122, and the fall-through to
\* lines 124-125 when it was the last one.
FetchAttempt ==
    /\ fetch_pc = "loop"
    /\ HasNextAttempt(attempt, max_attempts)
    /\ \E o \in Outcomes :
        LET a == attempt + 1
            r == TryBody(o)
        IN  /\ attempt' = a
            /\ responses' = Append(responses, o)
            /\ IF r.exc = "none"
               THEN /\ fetch_ret' = o.text
                    /\ fetch_pc' = "returned"
                    /\ UNCHANGED <<last_error, sleeps>>
               ELSE IF Handler(r) = None
               THEN /\ fetch_pc' = "raised"
                    /\ UNCHANGED <<last_error, sleeps, fetch_ret>>
               ELSE /\ last_error' = Handler(r)
                    /\ sleeps' = IF SleepsAfter(a, max_attempts)
                                 THEN Append(sleeps, [after |-> a, delay |-> BackoffDelay(a)])
                                 ELSE sleeps
                    /\ fetch_pc' = IF HasNextAttempt(a, max_attempts) THEN "loop" ELSE "returned"
                    /\ fetch_ret' = None
    /\ UNCHANGED max_attempts
    /\ UNCHANGED <<parse_vars, extract_vars, title_vars, render_vars, run_vars>>

\* The caller takes the result; the fetcher is ready for the next call.
FetchDone ==
    /\ fetch_pc \in {"returned", "raised"}
    /\ fetch_pc' = "idle"
    /\ UNCHANGED <<max_attempts, attempt, last_error, fetch_ret, responses, sleeps>>
    /\ UNCHANGED <<parse_vars, extract_vars, title_vars, render_vars, run_vars>>

(***************************************************************************)
(* Text helpers                                                            *)
(***************************************************************************)
Digits == {"0", "1", "2", "3", "4", "5", "6", "7", "8", "9"}
LowerLetters == {"a", "b", "c", "d", "e", "g", "r", "n", "l", "m", "k", "s", "t"}
UpperLetters == {"G", "L", "M", "K", "S", "T"}
Whitespace == {" ", "\t", "\n", "\r"}

\* \d and [0-9]
IsDigit(c) == c \in Digits
\* \s
IsSpace(c) == c \in Whitespace
\* \w
IsWord(c) == c \in Digits \cup LowerLetters \cup UpperLetters \cup {"_"}

\* Case folding of re.IGNORECASE.
Lower(c) ==
    CASE c = "G" -> "g" [] c = "L" -> "l" [] c = "M" -> "m"
      [] c = "K" -> "k" [] c = "S" -> "s" [] c = "T" -> "t" [] OTHER -> c

Pow10(n) == CASE n = 0 -> 1 [] n = 1 -> 10 [] n = 2 -> 100 [] n = 3 -> 1000
              [] n = 4 -> 10000 [] n = 5 -> 100000 [] OTHER -> 1000000

RECURSIVE DigitRun(_, _)
\* Number of consecutive digits of s from position i.
DigitRun(s, i) == IF i <= Len(s) /\ IsDigit(s[i]) THEN 1 + DigitRun(s, i + 1) ELSE 0

RECURSIVE SpaceRun(_, _)
\* Number of consecutive whitespace characters of s from position i.
SpaceRun(s, i) == IF i <= Len(s) /\ IsSpace(s[i]) THEN 1 + SpaceRun(s, i + 1) ELSE 0

DigitVal(c) ==
    CASE c = "0" -> 0 [] c = "1" -> 1 [] c = "2" -> 2 [] c = "3" -> 3 [] c = "4" -> 4
      [] c = "5" -> 5 [] c = "6" -> 6 [] c = "7" -> 7 [] c = "8" -> 8 [] c = "9" -> 9

RECURSIVE IntOf(_)
\* The integer written by a string of digits.
IntOf(ds) == IF ds = <<>> THEN 0 ELSE 10 * IntOf(SubSeq(ds, 1, Len(ds) - 1)) + DigitVal(ds[Len(ds)])

\* str.strip()
RECURSIVE LStrip(_)
LStrip(s) == IF s /= <<>> /\ IsSpace(s[1]) THEN LStrip(Tail(s)) ELSE s
RECURSIVE RStrip(_)
RStrip(s) == IF s /= <<>> /\ IsSpace(s[Len(s)]) THEN RStrip(SubSeq(s, 1, Len(s) - 1)) ELSE s
Strip(s) == LStrip(RStrip(s))

RECURSIVE CollapseSpaces(_, _)
\* re.sub(r'\s+', ' ', s), scanning from position i.
CollapseSpaces(s, i) ==
    IF i > Len(s) THEN <<>>
    ELSE IF IsSpace(s[i]) THEN <<" ">> \o CollapseSpaces(s, i + SpaceRun(s, i))
    ELSE <<s[i]>> \o CollapseSpaces(s, i + 1)

\* s[:n]
Take(s, n) == SubSeq(s, 1, IF Len(s) < n THEN Len(s) ELSE n)

\* The empty string '' that the records use for an absent field; a present
\* number v is held as <<v>>.
Empty == <<>>
Num(v) == <<v>>

(***************************************************************************)
(* Parser._to_num                                                          *)
(***************************************************************************)
\* The positions of the decimal separators of s once ',' is replaced by '.'.
SepPositions(s) == { i \in 1..Len(s) : s[i] \in {".", ","} }

\* float() accepts the digit strings with at most one separator.
WellFormed(s, seps) ==
    /\ \A i \in 1..Len(s) : IsDigit(s[i]) \/ i \in seps
    /\ Cardinality(seps) <= 1
    /\ Len(s) > Cardinality(seps)

\* The value of a well-formed s whose separator is at position p.
DecimalAt(s, p) ==
    [num |-> IntOf(SubSeq(s, 1, p - 1) \o SubSeq(s, p + 1, Len(s))),
     den |-> Pow10(Len(s) - p)]

ToNumWith(s, seps) ==
    IF ~WellFormed(s, seps) THEN [num |-> 0, den |-> 1]
    ELSE IF seps = {} THEN [num |-> IntOf(s), den |-> 1]
    ELSE DecimalAt(s, CHOOSE i \in seps : TRUE)

\* float(str(s).replace(',', '.')), 0 when float() raises.  The value is
\* num / den.
_to_num(s) == ToNumWith(s, SepPositions(s))

\* A parsed amount in kopecks (amounts carry no or two decimals).
Kopecks(x) == (x.num * 100) \div x.den

\* Nearest integer to q + r / d, ties to the even one.
RoundFrom(q, r, d) ==
    IF 2 * r < d THEN q
    ELSE IF 2 * r > d THEN q + 1
    ELSE IF q % 2 = 0 THEN q ELSE q + 1

\* Python round() of the non-negative fraction n / d.
RoundHalfEven(n, d) == RoundFrom(n \div d, n % d, d)

\* The least element of a non-empty set of positions.
Least(S) == CHOOSE x \in S : \A y \in S : x <= y

(***************************************************************************)
(* Currency amounts: \d{min,4}(?:[.,]\d{2})?\s*(?:grn|$)                   *)
(***************************************************************************)
NoMatch == [ok |-> FALSE, g1 |-> <<>>, end |-> 0]

\* Length of the currency marker (?:grn|$) at position j, 0 when absent.
CurrencyLen(s, j) ==
    IF j <= Len(s) /\ s[j] = "$" THEN 1
    ELSE IF j + 2 <= Len(s) /\ s[j] = "g" /\ s[j + 1] = "r" /\ s[j + 2] = "n" THEN 3
    ELSE 0

\* Length of the optional (?:[.,]\d{2}) at position j.
FracLen(s, j) ==
    IF j + 2 <= Len(s) /\ s[j] \in {".", ","} /\ IsDigit(s[j + 1]) /\ IsDigit(s[j + 2])
    THEN 3 ELSE 0

\* The number is s[i..k-1], the marker of length c starts at m.
AmountClose(s, i, k, m, c) ==
    IF c = 0 THEN NoMatch
    ELSE [ok |-> TRUE, g1 |-> SubSeq(s, i, k - 1), end |-> m + c]

\* The number is s[i..k-1]; \s* and the marker follow.
AmountTail(s, i, k, m) == AmountClose(s, i, k, m, CurrencyLen(s, m))

AmountNumber(s, i, k) == AmountTail(s, i, k, k + SpaceRun(s, k))

\* R digits start at i.
AmountDigits(s, i, minD, R) ==
    IF R < minD \/ R > 4 THEN NoMatch
    ELSE AmountNumber(s, i, i + R + FracLen(s, i + R))

\* The match of (\d{minD,4}(?:[.,]\d{2})?)\s*(?:grn|$) anchored at position i:
\* group 1 and the position after the match.  A shorter digit count than the
\* whole run leaves a digit where the pattern needs a separator, whitespace or
\* the marker, so backtracking finds nothing else.
AmountAt(s, i, minD) == AmountDigits(s, i, minD, DigitRun(s, i))

(***************************************************************************)
(* Program constants of the parser                                         *)
(***************************************************************************)
PRICE_MIN == 5
PRICE_MAX == 2000
TITLE_MAX == 200
TITLE_MIN == 5
RAW_TITLE_MIN == 3
MIN_HTML_LEN == 1000
MIN_ELEMENTS == 3

(***************************************************************************)
(* Parser._extract_prices                                                  *)
(***************************************************************************)
RECURSIVE FindAmounts(_, _, _)
\* One step of re.finditer: m is the attempt to match at position i.
FindStep(s, i, minD, m) ==
    IF m.ok THEN <<m.g1>> \o FindAmounts(s, m.end, minD)
    ELSE FindAmounts(s, i + 1, minD)

\* re.finditer of the amount pattern from position i: the group-1 strings of
\* the successive non-overlapping matches.
FindAmounts(s, i, minD) ==
    IF i > Len(s) THEN <<>> ELSE FindStep(s, i, minD, AmountAt(s, i, minD))

\* Line 251: 5 < price < 2000, on kopecks.
InBounds(k) == PRICE_MIN * 100 < k /\ k < PRICE_MAX * 100

\* Line 250: _to_num of every match, in kopecks.
AmountValues(all) == [i \in 1..Len(all) |-> Kopecks(_to_num(all[i]))]

\* Lines 249-252: the in-bounds amounts, in order of occurrence.
PricesOf(s) == SelectSeq(AmountValues(FindAmounts(s, 1, 2)), InBounds)

\* R digits start at j, after the '-' and the whitespace.
DiscountClose(s, j, R) ==
    IF R \in {1, 2} /\ j + R <= Len(s) /\ s[j + R] = "%"
    THEN SubSeq(s, j, j + R - 1)
    ELSE <<>>

DiscountDigits(s, j) == DiscountClose(s, j, DigitRun(s, j))

\* The match of -\s*(\d{1,2})% anchored at position i: group 1, or <<>>.
DiscountAt(s, i) ==
    IF s[i] /= "-" THEN <<>> ELSE DiscountDigits(s, i + 1 + SpaceRun(s, i + 1))

FirstDiscount(s, hits) == IF hits = {} THEN <<>> ELSE DiscountAt(s, Least(hits))

\* Line 263: re.search(r'-\s*(\d{1,2})%', text): group 1 of the leftmost
\* match, <<>> when there is none.
DiscountMarker(s) == FirstDiscount(s, { i \in 1..Len(s) : DiscountAt(s, i) /= <<>> })

\* Line 264 requiring three amounts instead of two.
HasOldPrice_three(marker, prices) == marker /= <<>> /\ Len(prices) >= 3

\* Line 264: a discount marker and at least two prices.
HasOldPrice(marker, prices) == marker /= <<>> /\ Len(prices) >= 2

\* Lines 254-274 for the in-bounds prices and the discount marker of the text.
PriceInfo(prices, marker) ==
    IF prices = <<>> THEN None
    ELSE IF HasOldPrice(marker, prices)
    THEN [kind |-> "prices", current |-> prices[1], old |-> Num(prices[2]),
          discount |-> marker, type |-> "discount"]
    ELSE [kind |-> "prices", current |-> prices[1], old |-> Empty,
          discount |-> Empty, type |-> "regular"]

_extract_prices(text) == PriceInfo(PricesOf(text), DiscountMarker(text))

(***************************************************************************)
(* Parser._extract_title and Parser._clean_text                            *)
(***************************************************************************)
RECURSIVE RemoveAmounts(_, _)
\* One step of re.sub: m is the attempt to match at position i.
RemoveStep(s, i, m) ==
    IF m.ok THEN RemoveAmounts(s, m.end)
    ELSE <<s[i]>> \o RemoveAmounts(s, i + 1)

\* Line 232: re.sub of the amount pattern (1-4 digits) by '', from position i.
RemoveAmounts(s, i) ==
    IF i > Len(s) THEN <<>> ELSE RemoveStep(s, i, AmountAt(s, i, 1))

\* Lines 229 and 397: whitespace runs become one space, ends stripped.
_clean_text(text) == Strip(CollapseSpaces(text, 1))

\* Line 238: len(title) > 2, else None.
TitleOrNone(title) ==
    IF title = <<>> \/ Len(title) < RAW_TITLE_MIN THEN None ELSE title

_extract_title(text) ==
    TitleOrNone(Strip(Take(Strip(RemoveAmounts(_clean_text(text), 1)), TITLE_MAX)))

(***************************************************************************)
(* Parser._extract_pack                                                    *)
(***************************************************************************)
\* The five patterns of lines 339-343.  maxD = 0: no upper limit on the
\* digits; frac: the optional (?:[.,][0-9]+); wb: a trailing \b.
PackPatterns == <<
    [minD |-> 1, maxD |-> 0, frac |-> TRUE,  word |-> <<"l">>,      wb |-> TRUE,
     unit |-> <<"m", "l">>, multiply |-> 1000],
    [minD |-> 2, maxD |-> 4, frac |-> FALSE, word |-> <<"m", "l">>, wb |-> TRUE,
     unit |-> <<"m", "l">>, multiply |-> 1],
    [minD |-> 2, maxD |-> 4, frac |-> FALSE, word |-> <<"g">>,      wb |-> TRUE,
     unit |-> <<"g">>, multiply |-> 1],
    [minD |-> 1, maxD |-> 3, frac |-> FALSE, word |-> <<"s", "t">>, wb |-> FALSE,
     unit |-> <<"s", "t">>, multiply |-> 1],
    [minD |-> 1, maxD |-> 0, frac |-> TRUE,  word |-> <<"k", "g">>, wb |-> FALSE,
     unit |-> <<"g">>, multiply |-> 1000] >>

\* The unit word w occurs at position j, letters compared case-insensitively.
WordAt(s, j, w) ==
    /\ j + Len(w) - 1 <= Len(s)
    /\ \A x \in 1..Len(w) : Lower(s[j + x - 1]) = w[x]

\* \b at position e, which follows a word character.
WordEnd(s, e) == e > Len(s) \/ ~IsWord(s[e])

\* Length of the optional (?:[.,][0-9]+) of pattern p at position j.
PackFracLen(s, j, p) ==
    IF p.frac /\ j <= Len(s) /\ s[j] \in {".", ","} /\ DigitRun(s, j + 1) > 0
    THEN 1 + DigitRun(s, j + 1) ELSE 0

\* The number is s[i..k-1], the unit word starts at m.
PackUnit(s, i, p, k, m) ==
    IF WordAt(s, m, p.word) /\ (p.wb => WordEnd(s, m + Len(p.word)))
    THEN SubSeq(s, i, k - 1)
    ELSE <<>>

PackNumber(s, i, p, k) == PackUnit(s, i, p, k, k + SpaceRun(s, k))

\* R digits start at i.
PackDigits(s, i, p, R) ==
    IF R < p.minD \/ (p.maxD /= 0 /\ R > p.maxD) THEN <<>>
    ELSE PackNumber(s, i, p, i + R + PackFracLen(s, i + R, p))

\* The match of pattern p anchored at position i: group 1, or <<>>.  As for
\* amounts, only the whole digit run can be followed by what the pattern needs.
PackAt(s, i, p) == PackDigits(s, i, p, DigitRun(s, i))

FirstPack(s, p, hits) == IF hits = {} THEN <<>> ELSE PackAt(s, Least(hits), p)

\* re.search: group 1 of the leftmost match of p in s, <<>> when none.
PackSearch(s, p) == FirstPack(s, p, { i \in 1..Len(s) : PackAt(s, i, p) /= <<>> })

Scaled(x, multiply) == RoundHalfEven(x.num * multiply, x.den)

\* Line 349: int(round(_to_num(group) * multiply)).
PackQty(g1, p) == Scaled(_to_num(g1), p.multiply)

\* Line 350: the dictionary returned for a matched pattern.
PackResult(qty, unit) ==
    [qty |-> IF qty > 0 THEN Num(qty) ELSE Empty, unit |-> unit]

RECURSIVE PackFrom(_, _)
\* Lines 347-350: g1 is group 1 of the search of pattern p, number n.
PackTry(title, n, p, g1) ==
    IF g1 /= <<>> THEN PackResult(PackQty(g1, p), p.unit)
    ELSE PackFrom(title, n + 1)

PackPattern(title, n, p) == PackTry(title, n, p, PackSearch(title, p))

\* Lines 346-352: the loop over the patterns from pattern number n.
PackFrom(title, n) ==
    IF n > Len(PackPatterns) THEN [qty |-> Empty, unit |-> Empty]
    ELSE PackPattern(title, n, PackPatterns[n])

_extract_pack(title) == PackFrom(title, 1)

(***************************************************************************)
(* Parser._calculate_price_per_unit                                        *)
(***************************************************************************)
\* Line 387 without the division by 1000.
BaseQtyDivisor_one == 1

\* Line 387: base_qty = qty / 1000.
BaseQtyDivisor == 1000

\* price is in kopecks, so is the result: round(price / qty * 100) / 100.
_calculate_price_per_unit(price, pack) ==
    IF price = 0 \/ pack.qty = Empty THEN Empty
    ELSE IF pack.unit = <<"s", "t">> THEN Num(RoundHalfEven(price, pack.qty[1]))
    ELSE Num(RoundHalfEven(price * BaseQtyDivisor, pack.qty[1]))

(***************************************************************************)
(* Parser._parse_element                                                   *)
(***************************************************************************)
Record(title, pack, current, old, discount, type) ==
    [kind |-> "record",
     product_title |-> title,
     pack_qty |-> pack.qty,
     pack_unit |-> pack.unit,
     price_current |-> current,
     price_old |-> old,
     discount_pct |-> discount,
     price_per_unit |-> _calculate_price_per_unit(current, pack),
     price_type |-> type]

\* Line 190: the element's text, a space, the parent's text ('' without parent).
FullText(text, parent) == text \o <<" ">> \o (IF parent = None THEN <<>> ELSE parent)

\* Lines 185-219 for the extracted title and price information.
ElementRecord(title, price_info) ==
    IF title = None THEN None
    ELSE IF Len(title) < TITLE_MIN THEN None
    ELSE IF price_info = None THEN None
    ELSE Record(title, _extract_pack(title), price_info.current,
                price_info.old, price_info.discount, price_info.type)

\* element.get_text() is text; parent is element.parent.get_text(), or None
\* for an element without a parent.
_parse_element(text, parent) ==
    ElementRecord(_extract_title(text), _extract_prices(FullText(text, parent)))

(***************************************************************************)
(* Parser._extract_with_regex                                              *)
(***************************************************************************)
\* The character class of group 1 of price_pattern (line 125).
IsTitleChar(c) == IsWord(c) \/ IsSpace(c) \/ c \in {"-", ".", "'"}

RECURSIVE TitleRun(_, _)
\* Number of consecutive title-class characters of s from position i.
TitleRun(s, i) == IF i <= Len(s) /\ IsTitleChar(s[i]) THEN 1 + TitleRun(s, i + 1) ELSE 0

\* The amount part of price_pattern after a title of length t taken at i.
RestAt(s, i, t) == AmountAt(s, i + t + SpaceRun(s, i + t), 1)

NoPattern == [ok |-> FALSE, g1 |-> <<>>, g2 |-> <<>>, end |-> 0]

\* The groups of the match with a title of length t, m being the amount part.
PatternGroups(s, i, t, m) ==
    [ok |-> TRUE, g1 |-> SubSeq(s, i, i + t - 1), g2 |-> m.g1, end |-> m.end]

PatternWith(s, i, t) == PatternGroups(s, i, t, RestAt(s, i, t))

ShortestTitle(s, i, ts) == IF ts = {} THEN NoPattern ELSE PatternWith(s, i, Least(ts))

\* The title lengths {5,200} allowed by a run of C class characters.
TitleLengths(C) == TITLE_MIN..(IF C < TITLE_MAX THEN C ELSE TITLE_MAX)

\* The match of price_pattern anchored at position i.  Group 1 is lazy: the
\* shortest title of 5..200 class characters after which the amount matches.
PricePatternAt(s, i) ==
    ShortestTitle(s, i, { t \in TitleLengths(TitleRun(s, i)) : RestAt(s, i, t).ok })

\* Line 146: price < 5 or price > 2000, on kopecks.
RegexPriceRejected(k) == k < PRICE_MIN * 100 \/ k > PRICE_MAX * 100

RECURSIVE RegexFrom(_, _, _)
\* Lines 131-175 for one match: its cleaned title, its price, and next, the
\* position after the match.
RegexCandidate(s, next, seen, title, price) ==
    IF title = <<>> \/ Len(title) < TITLE_MIN \/ Len(title) > TITLE_MAX
    THEN RegexFrom(s, next, seen)
    ELSE IF title \in seen
    THEN RegexFrom(s, next, seen)
    ELSE IF RegexPriceRejected(price)
    THEN RegexFrom(s, next, seen \cup {title})
    ELSE <<Record(title, _extract_pack(title), price, Empty, Empty, "regular")>>
         \o RegexFrom(s, next, seen \cup {title})

\* One step of re.finditer: m is the attempt to match at position i.
RegexStep(s, i, seen, m) ==
    IF ~m.ok THEN RegexFrom(s, i + 1, seen)
    ELSE RegexCandidate(s, m.end, seen, _clean_text(m.g1), Kopecks(_to_num(m.g2)))

\* Lines 129-175: the loop over re.finditer(price_pattern, html) from
\* position i, seen being seen_titles.
RegexFrom(s, i, seen) ==
    IF i > Len(s) THEN <<>> ELSE RegexStep(s, i, seen, PricePatternAt(s, i))

_extract_with_regex(markup) == RegexFrom(markup, 1, {})

(***************************************************************************)
(* Parser.extract_products and Parser._extract_with_beautifulsoup          *)
(***************************************************************************)
\* Lines 85-91.
Selectors == << "h3", "[class*=product]", "[class*=item]", "a[href*=/product/]", "div.product" >>

Element(text, parent) == [text |-> text, parent |-> parent]

\* The elements soup.select can return: one whose title is too short, one
\* with a regular price, one inside a discounted card with a package size.
ElementPool == {
    Element(<<"a", "b">>, <<"a", "b", " ", "8", "0", "$">>),
    Element(<<"a", "b", "c", "d", "e", " ", "8", "0", "$">>,
            <<"a", "b", "c", "d", "e", " ", "8", "0", "$">>),
    Element(<<"b", "c", "d", "e", "a", " ", "1", "l">>,
            <<"b", "c", "d", "e", "a", " ", "1", "l", " ", "6", "0", "$", " ",
              "7", "5", "$", " ", "-", "2", "0", "%">>) }

\* The results of soup.select: MIN_ELEMENTS..MaxElements elements.
ElementLists ==
    UNION { [1..n -> ElementPool] : n \in MIN_ELEMENTS..MaxElements }

\* The markup as the pattern miner sees it: what is not listed in raw is
\* markup that no pattern matches.
Htmls ==
    { [len |-> n, raw |-> r] :
        n \in {0, 999, 1000},
        r \in { <<>>, <<"e", "d", "c", "b", "a", " ", "9", "0", "$">> } }

\* Line 43 testing for the empty string only.
TooShort_emptyOnly(h) == h.len = 0

\* Line 43: not html or len(html) < 1000.
TooShort(h) == h.len = 0 \/ h.len < MIN_HTML_LEN

\* Line 96 with the threshold written "at least 3".
MatchesEnough_atLeast(n) == n >= MIN_ELEMENTS

\* Line 96: len(elements) > 3.
MatchesEnough(n) == n > MIN_ELEMENTS

\* Lines 54 and 106 returning whatever the list holds.
Found_always(ps) == TRUE

\* Lines 54, 65 and 106: "if products".
Found(ps) == ps /= <<>>

\* _parse_element of each element soup.select can return, evaluated once.
ParsedPool == [e \in ElementPool |-> _parse_element(e.text, e.parent)]

\* Lines 102-104: "if product: products.append(product)".
Appended(r) == IF r = None THEN <<>> ELSE <<r>>

RECURSIVE ParseAll(_)
\* Lines 99-104: the records of the elements that parse, in order.
ParseAll(elems) ==
    IF elems = <<>> THEN <<>>
    ELSE Appended(ParsedPool[Head(elems)]) \o ParseAll(Tail(elems))

ExtractReset ==
    /\ ex_pc = "idle"
    /\ html = [len |-> 0, raw |-> <<>>]
    /\ sel = 0
    /\ products = <<>>
    /\ ex_ret = <<>>
    /\ strategies = <<>>
    /\ evaluated = <<>>
    /\ parsed_elements = <<>>
    /\ bs_result = <<>>
    /\ regex_result = <<>>

ExtractIdle == ExtractReset /\ HAS_BS4 = FALSE

\* extract_products is called: lines 41-50.  BeautifulSoup(html) may raise,
\* which line 57 catches.
ExtractCall ==
    /\ ex_pc = "idle"
    /\ \E h \in Htmls, ctorRaises \in BOOLEAN :
        /\ html' = h
        /\ products' = <<>>
        /\ ex_ret' = <<>>
        /\ evaluated' = <<>>
        /\ parsed_elements' = <<>>
        /\ bs_result' = <<>>
        /\ regex_result' = <<>>
        /\ IF TooShort(h)
           THEN /\ ex_pc' = "returned"
                /\ strategies' = <<>>
                /\ sel' = 0
           ELSE IF HAS_BS4
           THEN /\ strategies' = <<"bs4">>
                /\ IF ctorRaises
                   THEN ex_pc' = "regex" /\ sel' = 0
                   ELSE ex_pc' = "selectors" /\ sel' = 1
           ELSE /\ ex_pc' = "regex"
                /\ strategies' = <<>>
                /\ sel' = 0
    /\ UNCHANGED HAS_BS4
    /\ UNCHANGED <<fetch_vars, parse_vars, title_vars, render_vars, run_vars>>

\* One iteration of the selector loop, lines 93-110, and what follows it when
\* the strategy returns: lines 106-107 or 112, then 54-58.
SelectorStep ==
    /\ ex_pc = "selectors"
    /\ sel <= Len(Selectors)
    /\ \E selectRaises \in BOOLEAN, elements \in ElementLists :
        LET parsing == ~selectRaises /\ MatchesEnough(Len(elements))
            new == IF parsing THEN products \o ParseAll(elements) ELSE products
            returns == (parsing /\ Found(new)) \/ sel = Len(Selectors)
        IN  /\ evaluated' = Append(evaluated,
                               [selector |-> Selectors[sel],
                                raised |-> selectRaises,
                                count |-> IF selectRaises THEN 0 ELSE Len(elements),
                                parsed |-> IF parsing THEN Len(elements) ELSE 0,
                                yielded |-> Len(new) - Len(products)])
            /\ parsed_elements' = IF parsing THEN elements ELSE <<>>
            /\ products' = new
            /\ IF ~returns
               THEN /\ sel' = sel + 1
                    /\ UNCHANGED <<ex_pc, ex_ret, bs_result>>
               ELSE /\ bs_result' = new
                    /\ UNCHANGED sel
                    /\ IF Found(new)
                       THEN ex_pc' = "returned" /\ ex_ret' = new
                       ELSE ex_pc' = "regex" /\ UNCHANGED ex_ret
    /\ UNCHANGED <<HAS_BS4, html, strategies, regex_result>>
    /\ UNCHANGED <<fetch_vars, parse_vars, title_vars, render_vars, run_vars>>

\* Lines 60-72: the pattern miner, whose exception line 68 catches.
RegexStrategy ==
    /\ ex_pc = "regex"
    /\ \E regexRaises \in BOOLEAN :
        LET found == IF regexRaises THEN <<>> ELSE _extract_with_regex(html.raw)
        IN  /\ regex_result' = found
            /\ ex_ret' = IF Found(found) THEN found ELSE <<>>
    /\ strategies' = Append(strategies, "regex")
    /\ ex_pc' = "returned"
    /\ UNCHANGED <<HAS_BS4, html, sel, products, evaluated, parsed_elements, bs_result>>
    /\ UNCHANGED <<fetch_vars, parse_vars, title_vars, render_vars, run_vars>>

(***************************************************************************)
(* Parser._extract_title over bounded texts                                *)
(***************************************************************************)
\* The pieces the title texts are built from.
TitleVocab == <<
    <<"a", "b", " ", "1", "2", " ">>,
    <<"c", "d", "e", " ">>,
    <<"5", "$">>,
    <<"$">>,
    <<"7", ",", "5", "0", " ", "g", "r", "n">>,
    <<" ", "\n">>,
    <<"3">> >>

RECURSIVE TitleFlatten(_)
TitleFlatten(cs) ==
    IF cs = <<>> THEN <<>> ELSE TitleVocab[Head(cs)] \o TitleFlatten(Tail(cs))

\* Every concatenation of at most MaxTitleChunks pieces.
TitleTexts ==
    { TitleFlatten(cs) :
        cs \in UNION { [1..n -> 1..Len(TitleVocab)] : n \in 0..MaxTitleChunks } }

TitleIdle ==
    /\ t_pc = "idle"
    /\ t_text = <<>>
    /\ t_title = None
    /\ t_again = None

InitTitle ==
    /\ t_pc = "input"
    /\ t_text \in TitleTexts
    /\ t_title = None
    /\ t_again = None

\* _extract_title on the text t_text (lines 226-241).
TitleExtract ==
    /\ t_pc = "input"
    /\ t_title' = _extract_title(t_text)
    /\ t_pc' = "once"
    /\ UNCHANGED <<t_text, t_again>>
    /\ UNCHANGED <<fetch_vars, parse_vars, extract_vars, render_vars, run_vars>>

\* _extract_title on the title it produced.
TitleAgain ==
    /\ t_pc = "once"
    /\ t_title /= None
    /\ t_again' = _extract_title(t_title)
    /\ t_pc' = "twice"
    /\ UNCHANGED <<t_text, t_title>>
    /\ UNCHANGED <<fetch_vars, parse_vars, extract_vars, render_vars, run_vars>>

(***************************************************************************)
(* Scraper.fetch_page_selenium and Scraper.close                           *)
(***************************************************************************)
\* Line 59: the default of fetch_page's max_attempts parameter, which the
\* calls of lines 173 and 176 take.
DEFAULT_MAX_ATTEMPTS_two == 2

DEFAULT_MAX_ATTEMPTS == 3

\* What the try body of lines 139-169 can do: the import fails, the browser
\* cannot be started, the page load raises, the bounded wait raises, or every
\* statement succeeds.
RenderOutcomes == {"ImportError", "ChromeRaises", "GetRaises", "WaitRaises", "ok"}

\* driver.page_source of a page that loaded: it is returned unexamined.
PageSources == { Text(0, FALSE, FALSE), Text(999, TRUE, TRUE), GoodText }

\* Line 156 returned: a browsing context exists.
ContextCreated(o) == o \in {"GetRaises", "WaitRaises", "ok"}

\* Line 166, driver.quit(), is reached.
ContextQuit(o) == o = "ok"

\* The contexts the call leaves open.
ContextsLeft(o) == IF ContextCreated(o) /\ ~ContextQuit(o) THEN 1 ELSE 0

\* Lines 171-176: both except clauses call self.fetch_page(url).
FallsBack(o) == o /= "ok"

RenderIdle ==
    /\ r_pc = "idle"
    /\ r_outcome = "none"
    /\ r_ret = None
    /\ driver = None
    /\ contexts = 0
    /\ session_open = TRUE

\* fetch_page_selenium(url) is called: the try body, lines 138-169, and the
\* entry into fetch_page(url) when an except clause is taken.
RenderCall ==
    /\ r_pc = "idle"
    /\ session_open
    /\ fetch_pc = "idle"
    /\ \E o \in RenderOutcomes :
        /\ r_outcome' = o
        /\ contexts' = contexts + ContextsLeft(o)
        /\ IF FallsBack(o)
           THEN /\ r_pc' = "fallback"
                /\ r_ret' = None
                /\ fetch_pc' = "loop"
                /\ max_attempts' = DEFAULT_MAX_ATTEMPTS
                /\ attempt' = 0
                /\ last_error' = None
                /\ fetch_ret' = None
                /\ responses' = <<>>
                /\ sleeps' = <<>>
           ELSE /\ r_pc' = "returned"
                /\ r_ret' \in PageSources
                /\ UNCHANGED fetch_vars
    /\ UNCHANGED <<driver, session_open>>
    /\ UNCHANGED <<parse_vars, extract_vars, title_vars, run_vars>>

\* Lines 173 and 176: "return self.fetch_page(url)" once fetch_page is over.
RenderReturn ==
    /\ r_pc = "fallback"
    /\ fetch_pc \in {"returned", "raised"}
    /\ r_ret' = fetch_ret
    /\ r_pc' = IF fetch_pc = "raised" THEN "raised" ELSE "returned"
    /\ fetch_pc' = "idle"
    /\ UNCHANGED <<max_attempts, attempt, last_error, fetch_ret, responses, sleeps>>
    /\ UNCHANGED <<r_outcome, driver, contexts, session_open>>
    /\ UNCHANGED <<parse_vars, extract_vars, title_vars, run_vars>>

\* Lines 180-184: self.driver.quit() under "if self.driver".
ContextsAfterClose(d, n) == IF d /= None THEN 0 ELSE n

\* Scraper.close, lines 178-186.
ScraperClose ==
    /\ r_pc \in {"idle", "returned", "raised"}
    /\ session_open
    /\ contexts' = ContextsAfterClose(driver, contexts)
    /\ session_open' = FALSE
    /\ r_pc' = "closed"
    /\ UNCHANGED <<r_outcome, r_ret, driver>>
    /\ UNCHANGED <<fetch_vars, parse_vars, extract_vars, title_vars, run_vars>>

(***************************************************************************)
(* SilpoScraper.run                                                        *)
(***************************************************************************)
\* config.py line 25, in milliseconds.
REQUEST_DELAY == 1500
\* config.py line 27.
RETRY_ATTEMPTS == 3
\* main.py line 192: max_attempts of the connectivity check.
CONNECTIVITY_ATTEMPTS == 2
\* main.py line 193: len(html) > 500.
CONNECTIVITY_MIN_LEN == 500
\* main.py lines 204 and 230, and line 237: the fallback page counts.
DEFAULT_LAST_PAGE == 10
ERROR_LAST_PAGE == 5

Min2(a, b) == IF a < b THEN a ELSE b

\* The greatest element of a non-empty set of numbers.
Greatest(S) == CHOOSE x \in S : \A y \in S : y <= x

\* A URL: config.BASE_URL, with ?page=query when query is not 0.
Url(query) == [base |-> "BASE_URL", query |-> query]

BASE_URL == Url(0)

\* What fetch_page returns: None, or a body that passed its tests.
FetchResults == { None, GoodText, Text(1000, FALSE, TRUE) }

\* What fetch_page_selenium returns: what fetch_page returns, or a
\* page_source of any length.
RenderResults == FetchResults \cup PageSources

\* What the first page shows of pagination: the numbers captured by
\* [?&]page=(\d+) (line 207), the first groups captured by the link pattern
\* (line 215), and whether 'page=' occurs (line 228).
Pagination(params, links, marker) == [params |-> params, links |-> links, marker |-> marker]

PageContents == {
    Pagination({}, {}, FALSE),
    Pagination({}, {}, TRUE),
    Pagination({0}, {}, TRUE),
    Pagination({1, 2}, {2}, TRUE),
    Pagination({2, 3}, {}, TRUE),
    Pagination({2, 45}, {2, 45}, TRUE),
    Pagination({45}, {2}, TRUE),
    Pagination({2, 7}, {7}, TRUE),
    Pagination({12}, {2, 6}, TRUE),
    Pagination({}, {1, 3}, TRUE) }

WithinLimit_any(n, limit) == TRUE

\* Lines 210 and 224: max_page <= config.MAX_PAGES.
WithinLimit(n, limit) == n <= limit

\* Lines 206-233: the page count read from a fetched first page.
PaginationOf(c, limit) ==
    IF c.params /= {} /\ WithinLimit(Greatest(c.params), limit) THEN Greatest(c.params)
    ELSE IF c.links /= {} /\ WithinLimit(Greatest(c.links), limit) THEN Min2(Greatest(c.links), limit)
    ELSE IF c.marker THEN Min2(DEFAULT_LAST_PAGE, limit)
    ELSE 1

\* SilpoScraper.find_last_page, lines 198-237: result is what fetch_page
\* returned, raises whether the try body raised, limit is config.MAX_PAGES.
find_last_page(result, c, raises, limit) ==
    IF raises THEN Min2(ERROR_LAST_PAGE, limit)
    ELSE IF result = None THEN Min2(DEFAULT_LAST_PAGE, limit)
    ELSE PaginationOf(c, limit)

\* SilpoScraper.generate_page_urls, lines 239-251.
generate_page_urls(last) ==
    [p \in 1..last |-> IF p = 1 THEN BASE_URL ELSE Url(p)]

\* Line 193: html is not None and len(html) > 500.
ConnectivityOk(result) ==
    IF result = None THEN FALSE ELSE result.len > CONNECTIVITY_MIN_LEN

\* Line 81: "if not html" is false.
Fetched(result) == IF result = None THEN FALSE ELSE result.len > 0

\* A call of the fetcher or of the parser, with what it returned.
Call(fn, step, url, attempts, returned) ==
    [fn |-> fn, step |-> step, url |-> url, max_attempts |-> attempts,
     returned |-> returned]

\* Lines 76-79: the fetch of the page with loop index i.
PageFetch(i, url, result) ==
    IF i = 0 THEN Call("fetch_page_selenium", "page", url, 0, result)
    ELSE Call("fetch_page", "page", url, RETRY_ATTEMPTS, result)

\* The records of a page, each held as its page_number.
ProductsOf(page_num, n) == [k \in 1..n |-> page_num]

\* The calls of one iteration: the fetch, and the extraction when line 81
\* lets it through.
PageCalls(i, url, result, n) ==
    IF Fetched(result)
    THEN << PageFetch(i, url, result),
            Call("extract_products", "page", url, 0, ProductsOf(i + 1, n)) >>
    ELSE << PageFetch(i, url, result) >>

\* A row handed to Storage.append_log.
LogRow(step, page, count, status) ==
    [step |-> step, page |-> page, count |-> count, status |-> status]

\* Lines 103-110 and 122-129: the row of one iteration.
PageRow(page_num, result, n) ==
    IF Fetched(result) THEN LogRow("PARSE", page_num, n, "success")
    ELSE LogRow("ERROR", page_num, 0, "failed")

\* What Parser.extract_products can yield from the body: nothing from a body
\* under MIN_HTML_LEN characters, else up to MaxProducts records.
Yields(result) ==
    IF Fetched(result) /\ result.len >= MIN_HTML_LEN THEN 0..MaxProducts ELSE {0}

\* Line 88: all_products.extend(products), reached when the fetch succeeded.
Extended(all, page_num, result, n) ==
    IF Fetched(result) THEN all \o ProductsOf(page_num, n) ELSE all

\* Line 113 testing nothing: a delay after every page.
SleepsAfterPage_always(i, n) == TRUE

\* Line 113: i < len(page_urls) - 1.
SleepsAfterPage(i, n) == i < n - 1

\* Lines 113-116, reached when the fetch succeeded.
Delayed(ds, i, n, result) ==
    IF Fetched(result) /\ SleepsAfterPage(i, n)
    THEN Append(ds, [after |-> i + 1, delay |-> REQUEST_DELAY])
    ELSE ds

\* The loop index after a failed iteration, were the failure to skip a page.
AfterIteration_skip(i, result) == IF Fetched(result) THEN i + 1 ELSE i + 2

\* Line 68: the for loop moves to the next URL whatever the iteration did.
AfterIteration(i, result) == i + 1

\* Line 50 never raising.
ConnectivityFatal_never(ok) == FALSE

\* Lines 50-51: a failed check raises.
ConnectivityFatal(ok) == ~ok

\* Lines 134-146: the rows of the save step.
SaveRows(all) ==
    IF all /= <<>> THEN << LogRow("WRITE", 0, Len(all), "success") >> ELSE <<>>

\* Lines 134-135 with Storage.save_products, lines 61-68.
Saved(file, all) == IF all /= <<>> THEN file \o all ELSE file

RunReset ==
    /\ max_page = 0
    /\ page_urls = <<>>
    /\ page_index = 0
    /\ all_products = <<>>
    /\ data_file = <<>>
    /\ log = <<>>
    /\ delays = <<>>
    /\ calls = <<>>
    /\ scraper_closed = FALSE
    /\ exit_status = Empty

RunIdle == run_pc = "idle" /\ MAX_PAGES = 1 /\ RunReset

\* run() up to line 45: Storage.ensure_directories() is outside the try, so
\* an exception of mkdir leaves run() at once.
RunStart ==
    /\ run_pc = "start"
    /\ \E dirsRaise \in BOOLEAN :
        IF dirsRaise
        THEN /\ run_pc' = "crashed"
             /\ exit_status' = Num(1)
        ELSE /\ run_pc' = "connectivity"
             /\ UNCHANGED exit_status
    /\ UNCHANGED <<MAX_PAGES, max_page, page_urls, page_index, all_products, data_file, log,
                   delays, calls, scraper_closed>>
    /\ UNCHANGED <<fetch_vars, parse_vars, extract_vars, title_vars, render_vars>>

\* Lines 47-52 with test_connectivity, and on failure lines 171-187: the
\* CRITICAL_ERROR row, sys.exit(1), and close() in the finally clause.
TestConnectivity ==
    /\ run_pc = "connectivity"
    /\ \E result \in FetchResults :
        /\ calls' = Append(calls, Call("fetch_page", "connectivity", BASE_URL,
                                       CONNECTIVITY_ATTEMPTS, result))
        /\ IF ConnectivityFatal(ConnectivityOk(result))
           THEN /\ log' = Append(log, LogRow("CRITICAL_ERROR", 0, 0, "failed"))
                /\ exit_status' = Num(1)
                /\ scraper_closed' = TRUE
                /\ run_pc' = "exited"
           ELSE /\ run_pc' = "discover"
                /\ UNCHANGED <<log, exit_status, scraper_closed>>
    /\ UNCHANGED <<MAX_PAGES, max_page, page_urls, page_index, all_products, data_file, delays>>
    /\ UNCHANGED <<fetch_vars, parse_vars, extract_vars, title_vars, render_vars>>

\* Lines 54-66: find_last_page, generate_page_urls, all_products = [].
FindLastPage ==
    /\ run_pc = "discover"
    /\ \E result \in FetchResults, c \in PageContents, raises \in BOOLEAN :
        /\ max_page' = find_last_page(result, c, raises, MAX_PAGES)
        /\ page_urls' = generate_page_urls(max_page')
        /\ calls' = Append(calls, Call("fetch_page", "discover", BASE_URL,
                                       RETRY_ATTEMPTS, result))
    /\ page_index' = 0
    /\ all_products' = <<>>
    /\ run_pc' = "pages"
    /\ UNCHANGED <<MAX_PAGES, data_file, log, delays, scraper_closed, exit_status>>
    /\ UNCHANGED <<fetch_vars, parse_vars, extract_vars, title_vars, render_vars>>

\* One iteration of the page loop, lines 68-129.
PageStep ==
    /\ run_pc = "pages"
    /\ page_index < Len(page_urls)
    /\ \E result \in (IF page_index = 0 THEN RenderResults ELSE FetchResults) :
        \E n \in Yields(result) :
            /\ calls' = calls \o PageCalls(page_index, page_urls[page_index + 1], result, n)
            /\ all_products' = Extended(all_products, page_index + 1, result, n)
            /\ log' = Append(log, PageRow(page_index + 1, result, n))
            /\ delays' = Delayed(delays, page_index, Len(page_urls), result)
            /\ page_index' = AfterIteration(page_index, result)
    /\ UNCHANGED <<run_pc, MAX_PAGES, max_page, page_urls, data_file, scraper_closed, exit_status>>
    /\ UNCHANGED <<fetch_vars, parse_vars, extract_vars, title_vars, render_vars>>

\* The loop is over: lines 131-169, then close() in the finally clause.
SaveStep ==
    /\ run_pc = "pages"
    /\ page_index >= Len(page_urls)
    /\ data_file' = Saved(data_file, all_products)
    /\ log' = log \o SaveRows(all_products) \o << LogRow("DONE", 0, Len(all_products), "success") >>
    /\ scraper_closed' = TRUE
    /\ exit_status' = Num(0)
    /\ run_pc' = "done"
    /\ UNCHANGED <<MAX_PAGES, max_page, page_urls, page_index, all_products, delays, calls>>
    /\ UNCHANGED <<fetch_vars, parse_vars, extract_vars, title_vars, render_vars>>

(***************************************************************************)
(* The element parser and the pattern miner over bounded texts             *)
(***************************************************************************)
\* The pieces the input texts are built from.
Vocab == <<
    <<"a", "b", "c", "d", "e", " ">>,
    <<"8", "0", "$">>,
    <<"0", "5", " ", "g", "r", "n">>,
    <<"2", "0", "0", "0", "$">>,
    <<"1", "9", "9", "9", ",", "9", "9", "$">>,
    <<"-", "2", "0", "%">>,
    <<"1", "l", " ">>,
    <<"0", " ", "L", " ">>,
    <<"6", "s", "t">>,
    <<"1", ",", "5", "k", "g">>,
    <<"5", "0", "0", "g", " ">> >>

RECURSIVE Flatten(_)
Flatten(cs) == IF cs = <<>> THEN <<>> ELSE Vocab[Head(cs)] \o Flatten(Tail(cs))

\* Every concatenation of at most MaxChunks pieces.
Texts == { Flatten(cs) : cs \in UNION { [1..n -> 1..Len(Vocab)] : n \in 0..MaxChunks } }

\* The text of the parent of an element with text t: the element's own text
\* with what its siblings add before and after it.
ParentTexts(t) ==
    { pre \o t \o post :
        pre \in { <<>>, <<"-", " ", "5", "%", " ">> },
        post \in { <<>>, <<" ", "8", "0", "$", " ", "1", "0", "0", " ", "$">> } }

ParseIdle ==
    /\ p_pc = "idle"
    /\ p_text = <<>>
    /\ p_parent = None
    /\ p_out = <<>>

InitParse ==
    /\ FetchIdle
    /\ ExtractIdle
    /\ TitleIdle
    /\ RenderIdle
    /\ RunIdle
    /\ p_pc = "input"
    /\ p_text \in Texts
    /\ p_parent = None
    /\ p_out = <<>>

\* _parse_element on an element with text p_text (lines 180-223).
ParseElement ==
    /\ p_pc = "input"
    /\ \E hasParent \in BOOLEAN, ptext \in ParentTexts(p_text) :
         /\ p_parent' = IF hasParent THEN ptext ELSE None
         /\ p_out' = Appended(_parse_element(p_text, p_parent'))
    /\ p_pc' = "element"
    /\ UNCHANGED p_text
    /\ UNCHANGED <<fetch_vars, extract_vars, title_vars, render_vars, run_vars>>

\* _extract_with_regex on the markup p_text (lines 115-177).
RegexExtract ==
    /\ p_pc = "input"
    /\ p_out' = _extract_with_regex(p_text)
    /\ p_pc' = "regex"
    /\ UNCHANGED <<p_text, p_parent>>
    /\ UNCHANGED <<fetch_vars, extract_vars, title_vars, render_vars, run_vars>>

NextParse == ParseElement \/ RegexExtract

SpecParse == InitParse /\ [][NextParse]_vars

(***************************************************************************)
(* Specifications                                                          *)
(***************************************************************************)
InitFetch == FetchIdle /\ ParseIdle /\ ExtractIdle /\ TitleIdle /\ RenderIdle /\ RunIdle

InitExtract ==
    /\ FetchIdle
    /\ ParseIdle
    /\ TitleIdle
    /\ RenderIdle
    /\ RunIdle
    /\ ExtractReset
    /\ HAS_BS4 \in BOOLEAN

NextExtract == ExtractCall \/ SelectorStep \/ RegexStrategy

SpecExtract == InitExtract /\ [][NextExtract]_vars

NextFetch == FetchCall \/ FetchAttempt \/ FetchDone

SpecFetch == InitFetch /\ [][NextFetch]_vars

InitTitleSpec ==
    /\ FetchIdle
    /\ ParseIdle
    /\ ExtractIdle
    /\ RenderIdle
    /\ RunIdle
    /\ InitTitle

NextTitle == TitleExtract \/ TitleAgain

SpecTitle == InitTitleSpec /\ [][NextTitle]_vars

InitRender == FetchIdle /\ ParseIdle /\ ExtractIdle /\ TitleIdle /\ RunIdle /\ RenderIdle

NextRender == RenderCall \/ FetchAttempt \/ RenderReturn \/ ScraperClose

SpecRender == InitRender /\ [][NextRender]_vars

\* The orchestrator is constructed (lines 23-34) and run() is entered, under
\* any configured page limit.
InitRun ==
    /\ FetchIdle
    /\ ParseIdle
    /\ ExtractIdle
    /\ TitleIdle
    /\ RenderIdle
    /\ run_pc = "start"
    /\ MAX_PAGES \in 1..MaxPagesBound
    /\ RunReset

NextRun == RunStart \/ TestConnectivity \/ FindLastPage \/ PageStep \/ SaveStep

SpecRun == InitRun /\ [][NextRun]_vars

(***************************************************************************)
(* Properties of fetch_page                                                *)
(***************************************************************************)
\* The success conditions as the specification words them.
Acceptable(o) ==
    /\ o.kind = "response"
    /\ o.status < 400
    /\ o.text.len >= 1000
    /\ (o.text.doctype \/ o.text.htmltag)

FailedAttempts == { j \in 1..Len(responses) : ~Acceptable(responses[j]) }

\* C1: fetch_page returns a body only from an attempt whose response has
\* status < 400, at least 1000 characters and a doctype marker or html tag in
\* its head; it is the body of the earliest such attempt among the first
\* max_attempts, and no request is issued after that attempt.
C1_BodyOfEarliestAcceptable ==
    /\ Len(responses) <= max_attempts
    /\ \A j \in 1..Len(responses) :
          Acceptable(responses[j]) =>
             /\ j = Len(responses)
             /\ fetch_pc \in {"returned", "idle"}
             /\ fetch_ret = responses[j].text
    /\ fetch_ret /= None =>
          /\ Len(responses) >= 1
          /\ Acceptable(responses[Len(responses)])

C1_Witness ==
    /\ fetch_pc = "returned"
    /\ fetch_ret /= None
    /\ Len(responses) = 2
    /\ max_attempts = 3

\* The reason the specification gives for each kind of failed attempt.
ExpectedReason(o) ==
    IF o.kind = "Timeout" THEN "Request timeout (15s exceeded)"
    ELSE IF o.kind = "ConnectionError" THEN "Connection error"
    ELSE IF o.kind = "RequestException" THEN "request failed"
    ELSE IF o.status = 404 THEN "HTTP 404 - Page not found"
    ELSE IF o.status = 403 THEN "HTTP 403 - Access forbidden (site may be blocking us)"
    ELSE IF o.status = 429 THEN "HTTP 429 - Rate limited (too many requests)"
    ELSE IF o.status >= 400 THEN "HTTP"
    ELSE IF o.text.len < 1000 THEN "Empty/short response"
    ELSE "Response doesn't contain valid HTML"

\* C2: when every one of the max_attempts attempts fails, fetch_page issues
\* exactly max_attempts requests, then returns failure with the reason of the
\* last attempt, and it never raises to the caller.
C2_FailureAfterAllAttempts ==
    /\ fetch_pc /= "raised"
    /\ (fetch_pc = "returned" /\ FailedAttempts = 1..Len(responses)) =>
          /\ Len(responses) = max_attempts
          /\ fetch_ret = None
          /\ last_error.kind = "error"
          /\ last_error.msg = ExpectedReason(responses[max_attempts])
    /\ (fetch_pc = "returned" /\ fetch_ret = None) => FailedAttempts = 1..max_attempts

C2_Witness ==
    /\ fetch_pc = "returned"
    /\ fetch_ret = None
    /\ max_attempts = 3
    /\ \A j \in 1..3 : responses[j].kind = "response" /\ responses[j].status = 403
    /\ last_error.msg = "HTTP 403 - Access forbidden (site may be blocking us)"

\* C3: after failed attempt k < max_attempts the fetcher sleeps exactly
\* RETRY_DELAY * k before attempt k+1; it sleeps neither after the last failed
\* attempt nor after a successful one.  For [timeout, timeout, valid] and
\* max_attempts = 3 it sleeps RETRY_DELAY*1, RETRY_DELAY*2 and returns the body.
C3_LinearBackoff ==
    /\ Len(sleeps) = Cardinality({ j \in FailedAttempts : j < max_attempts })
    /\ \A i \in 1..Len(sleeps) : sleeps[i] = [after |-> i, delay |-> RETRY_DELAY * i]
    /\ Len(responses) >= 2 => Len(sleeps) >= Len(responses) - 1
    /\ ( /\ fetch_pc = "returned"
         /\ max_attempts = 3
         /\ Len(responses) = 3
         /\ responses[1].kind = "Timeout"
         /\ responses[2].kind = "Timeout"
         /\ Acceptable(responses[3]) )
       => /\ sleeps = << [after |-> 1, delay |-> RETRY_DELAY * 1],
                         [after |-> 2, delay |-> RETRY_DELAY * 2] >>
          /\ fetch_ret = responses[3].text

C3_Witness ==
    /\ fetch_pc = "returned"
    /\ max_attempts = 3
    /\ Len(responses) = 3
    /\ responses[1].kind = "Timeout"
    /\ responses[2].kind = "Timeout"
    /\ Acceptable(responses[3])
    /\ Len(sleeps) = 2
    /\ sleeps[2].delay = 4


(***************************************************************************)
(* Properties of the records                                               *)
(***************************************************************************)
Records == { p_out[i] : i \in 1..Len(p_out) }

\* C4: every emitted record, from the structured strategy or from the pattern
\* miner, has price_current strictly between 5 and 2000; an amount of exactly
\* 5 or exactly 2000 is never emitted.
C4_PriceInOpenInterval ==
    \A r \in Records : 5 * 100 < r.price_current /\ r.price_current < 2000 * 100

\* C5: in every emitted record pack_qty and pack_unit are both present or
\* both absent; a matched package whose quantity is <= 0 leaves both empty.
C5_PackBothOrNeither ==
    \A r \in Records : (r.pack_qty = Empty) <=> (r.pack_unit = Empty)

\* The extended context of the element parsed: its text, a space, its
\* parent's text.
ElementContext == p_text \o <<" ">> \o (IF p_parent = None THEN <<>> ELSE p_parent)

IsPlausible(k) == k > 500 /\ k < 200000

\* The in-bounds currency amounts (2-4 digits, optional 2-digit fraction,
\* currency marker) of a text, in order, in kopecks.
PlausibleAmounts(s) == SelectSeq(AmountValues(FindAmounts(s, 1, 2)), IsPlausible)

\* The price fields of record r agree with the amounts am and the marker mk.
PricesAgree(r, am, mk) ==
    /\ am /= <<>>
    /\ r.price_current = am[1]
    /\ IF mk /= <<>> /\ Len(am) >= 2
       THEN /\ r.price_old = Num(am[2])
            /\ r.discount_pct = mk
            /\ r.price_type = "discount"
       ELSE /\ r.price_old = Empty
            /\ r.discount_pct = Empty
            /\ r.price_type = "regular"

\* C6: price_current is the first in-bounds amount of the extended context;
\* with a "-N%" marker and at least two in-bounds amounts price_old is the
\* second amount, discount_pct is N and price_type is discount; otherwise
\* price_type is regular and price_old and discount_pct are empty.  So in
\* every record price_type = discount exactly when both are present.
C6_ElementPrices ==
    /\ (p_pc = "element" /\ p_out /= <<>>) =>
          PricesAgree(p_out[1], PlausibleAmounts(ElementContext),
                      DiscountMarker(ElementContext))
    /\ \A r \in Records :
          /\ r.price_type \in {"regular", "discount"}
          /\ (r.price_type = "discount") <=> (r.price_old /= Empty /\ r.discount_pct /= Empty)

\* The scenario of the specification: marker -20%, amounts [80.00, 100.00].
C6_Witness ==
    /\ p_pc = "element"
    /\ Len(p_out) = 1
    /\ PlausibleAmounts(ElementContext) = <<8000, 10000>>
    /\ p_out[1].price_current = 8000
    /\ p_out[1].price_old = Num(10000)
    /\ p_out[1].discount_pct = <<"2", "0">>
    /\ p_out[1].price_type = "discount"

Abs(x) == IF x < 0 THEN 0 - x ELSE x

\* v is n / d rounded to the nearest integer.
IsNearest(v, n, d) == 2 * Abs(v * d - n) <= d

\* C7: with pack_qty and pack_unit present, price_per_unit is price_current /
\* pack_qty for pieces and price_current / (pack_qty / 1000) otherwise,
\* rounded to 2 decimals; it is empty when the quantity is absent.
C7_PricePerUnit ==
    \A r \in Records :
        /\ (r.pack_qty /= Empty /\ r.pack_unit /= Empty) =>
              /\ r.price_per_unit /= Empty
              /\ IF r.pack_unit = <<"s", "t">>
                 THEN IsNearest(r.price_per_unit[1], r.price_current, r.pack_qty[1])
                 ELSE IsNearest(r.price_per_unit[1], r.price_current * 1000, r.pack_qty[1])
        /\ r.pack_qty = Empty => r.price_per_unit = Empty

C7_Witness ==
    \E r \in Records :
        /\ r.pack_unit = <<"g">>
        /\ r.pack_qty = Num(1500)
        /\ r.price_current = 199999
        /\ r.price_per_unit = Num(133333)

(***************************************************************************)
(* Properties of extract_products                                          *)
(***************************************************************************)
\* C8: given markup shorter than 1000 characters (or empty), extract returns
\* an empty sequence and invokes neither strategy.
C8_ShortMarkupEmpty ==
    (ex_pc /= "idle" /\ html.len < 1000) =>
        /\ ex_pc = "returned"
        /\ ex_ret = <<>>
        /\ strategies = <<>>
        /\ evaluated = <<>>

C8_Witness ==
    /\ ex_pc = "returned"
    /\ HAS_BS4
    /\ html.len = 999
    /\ html.raw /= <<>>
    /\ ex_ret = <<>>

Invoked(st) == \E i \in 1..Len(strategies) : strategies[i] = st

\* C9: the structured strategy is tried first and the pattern miner runs if
\* and only if the structured strategy produced no record (unavailable,
\* raised or empty); the returned sequence comes from exactly one strategy,
\* and extract never raises outward.
C9_StructuredThenFallback ==
    /\ ex_pc /= "raised"
    /\ strategies \in { <<>>, <<"bs4">>, <<"regex">>, <<"bs4", "regex">> }
    /\ Invoked("bs4") <=> (HAS_BS4 /\ ex_pc /= "idle" /\ html.len >= 1000)
    /\ ex_pc \in {"selectors", "regex"} => bs_result = <<>> /\ ~Invoked("regex")
    /\ (ex_pc = "returned" /\ html.len >= 1000) =>
          /\ Invoked("regex") <=> bs_result = <<>>
          /\ bs_result /= <<>> => ex_ret = bs_result /\ regex_result = <<>>
          /\ bs_result = <<>> => ex_ret = regex_result

C9_Witness ==
    /\ ex_pc = "returned"
    /\ strategies = <<"bs4", "regex">>
    /\ Len(evaluated) = Len(Selectors)
    /\ bs_result = <<>>
    /\ ex_ret /= <<>>
    /\ ex_ret = regex_result

IsRecord(r) == r /= None

\* The non-null records of a list of elements.
NonNull(elems) == SelectSeq([i \in 1..Len(elems) |-> ParsedPool[elems[i]]], IsRecord)

\* C10: selectors are evaluated in list order; a selector matching 3 or fewer
\* elements is skipped without parsing any element; the result is exactly the
\* non-null records of the first selector that matches more than 3 elements
\* and yields a record, and no later selector is evaluated after it.
C10_FirstQualifyingSelector ==
    /\ Len(evaluated) <= Len(Selectors)
    /\ \A i \in 1..Len(evaluated) :
          /\ evaluated[i].selector = Selectors[i]
          /\ evaluated[i].count <= 3 => evaluated[i].parsed = 0
          /\ evaluated[i].count > 3 => evaluated[i].parsed = evaluated[i].count
          /\ i < Len(evaluated) => evaluated[i].yielded = 0
    /\ (ex_pc \in {"regex", "returned"} /\ evaluated /= <<>>) =>
          LET last == evaluated[Len(evaluated)]
          IN  IF last.count > 3 /\ NonNull(parsed_elements) /= <<>>
              THEN bs_result = NonNull(parsed_elements)
              ELSE bs_result = <<>> /\ Len(evaluated) = Len(Selectors)

C10_Witness ==
    /\ ex_pc = "returned"
    /\ Len(evaluated) = 3
    /\ evaluated[1].count = 3
    /\ evaluated[2].count = 4
    /\ evaluated[3].count = 4
    /\ Len(ex_ret) = 2
    /\ ex_ret = bs_result
    /\ ex_ret[1] /= ex_ret[2]

(***************************************************************************)
(* Properties of _extract_title                                            *)
(***************************************************************************)
\* A currency amount with its marker occurs somewhere in s: 1-4 digits, an
\* optional 2-digit fraction, optional whitespace, then the marker.
ContainsAmount(s) == \E i \in 1..Len(s) : AmountAt(s, i, 1).ok

\* C11: the title extracted from a text that contains a currency amount with
\* its marker never contains such a substring, not even one formed by the
\* text left and right of a removed match.
C11_TitleHasNoAmount ==
    (t_pc \in {"once", "twice"} /\ t_title /= None /\ ContainsAmount(t_text))
        => ~ContainsAmount(t_title)

\* C12: title normalization is idempotent: applied to a title it produced,
\* _extract_title returns that title unchanged.
C12_TitleIdempotent ==
    t_pc = "twice" => t_title = t_again

(***************************************************************************)
(* Properties of the run and of the fetcher's shutdown                     *)
(***************************************************************************)
\* run() is over and the process ends.
RunEnded == run_pc \in {"done", "exited", "crashed"}

\* A failure entry is in the run log.
FailureLogged == \E k \in 1..Len(log) : log[k].status = "failed" /\ log[k].page = 0

\* C13: on every path that ends a run, the fetcher's close has been executed
\* before the process exits; on a fatal error a failure entry is logged and
\* the exit status is non-zero.
C13_CloseOnEveryExit ==
    RunEnded =>
        /\ scraper_closed
        /\ run_pc /= "done" => (FailureLogged /\ exit_status /= Num(0))

\* C14: after close no browsing context opened by the rendered fetch remains
\* open.
C14_NoContextAfterClose ==
    r_pc = "closed" => contexts = 0

IsPageFetch(c) == c.step = "page" /\ c.fn /= "extract_products"

\* The fetches the page loop made, in order.
PageFetches == SelectSeq(calls, IsPageFetch)

\* The URL of page p: the base URL, with ?page=p from page 2 on.
UrlOfPage(p) == IF p = 1 THEN [base |-> "BASE_URL", query |-> 0]
                ELSE [base |-> "BASE_URL", query |-> p]

\* C15: a failed page never halts the run: the k-th fetch of the page loop is
\* that of page k, so every generated URL is attempted exactly once and in
\* increasing page number whatever the earlier pages gave, and the run
\* reaches the save step with every page attempted.
C15_EveryPageAttemptedOnce ==
    /\ Len(PageFetches) <= Len(page_urls)
    /\ \A k \in 1..Len(PageFetches) :
          /\ PageFetches[k].url = page_urls[k]
          /\ PageFetches[k].url = UrlOfPage(k)
    /\ run_pc = "pages" => Len(PageFetches) = page_index
    /\ run_pc = "done" => Len(PageFetches) = Len(page_urls)
    /\ run_pc = "exited" => PageFetches = <<>>

C15_Witness ==
    /\ run_pc = "done"
    /\ Len(page_urls) = 3
    /\ Len(PageFetches) = 3
    /\ PageFetches[1].returned = None
    /\ PageFetches[2].returned = None
    /\ PageFetches[3].returned /= None
    /\ data_file = <<3, 3>>

\* The rows of the run log about page p.
RowsOfPage(p) == { k \in 1..Len(log) : log[k].page = p }

\* The row records a page whose fetch failed or that gave no record.
FailedOrEmpty(row) == row.step = "ERROR" \/ row.count = 0

\* C16: every attempted page produces exactly one run-log row, and a page
\* whose fetch failed or which yielded no record is never recorded with a
\* success status.
C16_PageRowStatus ==
    \A p \in 1..Len(PageFetches) :
        /\ Cardinality(RowsOfPage(p)) = 1
        /\ \A k \in RowsOfPage(p) : FailedOrEmpty(log[k]) => log[k].status /= "success"

\* The connectivity check was made and fetch_page returned failure.
ConnectivityFailed == calls /= <<>> /\ calls[1].returned = None

\* C17: when the connectivity check (fetch of the base URL with 2 attempts)
\* fails the run is fatal: nothing but that fetch is made, no record is
\* persisted, a failure entry is in the run log, the fetcher is closed and
\* the exit status is non-zero.
C17_ConnectivityFatal ==
    /\ calls /= <<>> =>
          /\ calls[1].fn = "fetch_page"
          /\ calls[1].url = [base |-> "BASE_URL", query |-> 0]
          /\ calls[1].max_attempts = 2
    /\ ConnectivityFailed =>
          /\ run_pc = "exited"
          /\ Len(calls) = 1
          /\ page_urls = <<>>
          /\ all_products = <<>>
          /\ data_file = <<>>
          /\ log = << [step |-> "CRITICAL_ERROR", page |-> 0, count |-> 0, status |-> "failed"] >>
          /\ scraper_closed
          /\ exit_status = Num(1)

C17_Witness ==
    /\ ConnectivityFailed
    /\ run_pc = "exited"
    /\ MAX_PAGES = 3
    /\ scraper_closed
    /\ Len(log) = 1

\* The records extracted so far, in order.
RECURSIVE ExtractedUpTo(_)
ExtractedUpTo(n) ==
    IF n = 0 THEN <<>>
    ELSE ExtractedUpTo(n - 1)
         \o (IF calls[n].fn = "extract_products" THEN calls[n].returned ELSE <<>>)

\* C18: the records of a page are appended to the durable store before the
\* next page is fetched and are not retained afterwards: when the fetch of
\* a next page is about to start the core holds no record and the store
\* holds every record extracted so far.
C18_AppendedBeforeNextFetch ==
    (run_pc = "pages" /\ page_index < Len(page_urls)) =>
        /\ all_products = <<>>
        /\ data_file = ExtractedUpTo(Len(calls))

\* The fetch gave markup: a body, not failure and not an empty page.
GotHtml(returned) == IF returned = None THEN FALSE ELSE returned.len > 0

\* The row is that of an iteration whose fetch succeeded and that was not the
\* last one.
DelayDue(row) == row.step = "PARSE" /\ row.page < Len(page_urls)

\* The delay the configuration asks for after the page of a row.
DelayAfter(row) == [after |-> row.page, delay |-> REQUEST_DELAY]

\* The delays due for the rows rs, in order.
DelaysFor(rs) == [k \in 1..Len(rs) |-> DelayAfter(rs[k])]

\* C19: the orchestrator sleeps the configured request delay after each page
\* iteration whose fetch succeeded and that is not the last page, and at no
\* other time: not after the last page, not after a failed iteration.
C19_DelayBetweenPages ==
    /\ delays = DelaysFor(SelectSeq(log, DelayDue))
    /\ \A k \in 1..Len(PageFetches) :
          (\E d \in 1..Len(delays) : delays[d].after = k)
              <=> (GotHtml(PageFetches[k].returned) /\ k < Len(page_urls))

C19_Witness ==
    /\ run_pc = "done"
    /\ Len(page_urls) = 3
    /\ PageFetches[1].returned /= None
    /\ PageFetches[2].returned = None
    /\ PageFetches[3].returned /= None
    /\ delays = << [after |-> 1, delay |-> 1500] >>

\* The attempts among the first n outcomes rs that the plain fetch accepts.
AcceptedIn(rs, n) == { j \in 1..Len(rs) : j <= n /\ Acceptable(rs[j]) }

\* What fetch(url, n) returns when its requests have the outcomes rs: the
\* body of the earliest accepted attempt, failure when there is none.
PlainReturn(rs, accepted) ==
    IF accepted = {} THEN None ELSE rs[Least(accepted)].text

\* The number of requests fetch(url, n) issues on such outcomes.
PlainRequests(n, accepted) == IF accepted = {} THEN n ELSE Least(accepted)

\* The backoff of fetch(url, n) after req requests of which all but an
\* accepted last one failed.
PlainSleeps(n, req, accepted) ==
    [k \in 1..(IF accepted = {} THEN n - 1 ELSE req - 1) |->
        [after |-> k, delay |-> RETRY_DELAY * k]]

\* The rendered fetch returned by way of the plain path exactly as
\* fetch(url, n) does on the same outcomes.
SameAsPlain(n, accepted) ==
    /\ Len(responses) = PlainRequests(n, accepted)
    /\ r_ret = PlainReturn(responses, accepted)
    /\ sleeps = PlainSleeps(n, Len(responses), accepted)

\* C20: when the scripted browser is unavailable or raises, the rendered
\* fetch returns exactly what fetch(url, configured retry attempts) returns
\* for the same attempt outcomes, with the same validation and backoff, and
\* it never raises to the caller.
C20_FallbackSameAsPlainFetch ==
    /\ r_pc /= "raised"
    /\ (r_pc \in {"returned", "closed"} /\ r_outcome \notin {"none", "ok"}) =>
          SameAsPlain(RETRY_ATTEMPTS, AcceptedIn(responses, RETRY_ATTEMPTS))

C20_Witness ==
    /\ r_pc = "returned"
    /\ r_outcome = "ImportError"
    /\ Len(responses) = 3
    /\ responses[1].kind = "Timeout"
    /\ responses[2].kind = "response" /\ responses[2].status = 429
    /\ r_ret = GoodText
    /\ Len(sleeps) = 2

(***************************************************************************)
(* Properties of find_last_page and generate_page_urls                     *)
(***************************************************************************)
\* find_last_page returns at most the limit for each limit up to
\* MaxLimitBound, whatever the first page holds, whether its fetch failed
\* and whether the body raised.
LastPageWithin ==
    \A limit \in 1..MaxLimitBound, result \in FetchResults, c \in PageContents,
       raises \in BOOLEAN :
        find_last_page(result, c, raises, limit) <= limit

\* The discovery step has run: find_last_page returned and the URLs exist.
Discovered == run_pc \in {"pages", "done"}

\* The fetch of the first page that find_last_page made, line 201.
DiscoveryFetch == SelectSeq(calls, LAMBDA c : c.step = "discover")

\* C21: for every content of the first page, a failed pagination fetch or
\* an internal error, and every MAX_PAGES >= 1, find_last_page returns at
\* most MAX_PAGES; so a run generates and fetches at most MAX_PAGES page
\* URLs, page 1 being the base URL and page N >= 2 the base URL with
\* ?page=N.
C21_PageCountWithinLimit ==
    /\ LastPageWithin
    /\ Len(PageFetches) <= MAX_PAGES
    /\ Discovered =>
          /\ max_page <= MAX_PAGES
          /\ Len(page_urls) <= MAX_PAGES
          /\ Len(page_urls) = (IF max_page < 0 THEN 0 ELSE max_page)
          /\ \A k \in 1..Len(page_urls) : page_urls[k] = UrlOfPage(k)

\* The pagination fetch failed, the limit decided the page count, and
\* every page up to the limit was fetched.
C21_Witness ==
    /\ run_pc = "done"
    /\ MAX_PAGES = 3
    /\ Len(DiscoveryFetch) = 1
    /\ DiscoveryFetch[1].returned = None
    /\ max_page = 3
    /\ Len(PageFetches) = 3
    /\ PageFetches[3].url = [base |-> "BASE_URL", query |-> 3]

====
